---- MODULE Spec2Model ----
(***************************************************************************)
(* Call-session lifecycle and media-track reconciliation of the softphone  *)
(* signaling layer (lib/sipClient): the module-level currentSession and    *)
(* isOnHold variables, the makeCall / acceptCall coroutines, hangupCall,   *)
(* the call-control operations and the state-change listeners they         *)
(* register on SIP.js sessions.                                            *)
(***************************************************************************)
EXTENDS Integers, Sequences, FiniteSets, TLC

\* ---------------------------------------------------------------- bounds
MaxSenders == 4       \* RTP senders one peer connection may carry
MaxAttempts == 2      \* initSIP invocations of a run
MaxEndTimers == 2     \* 30 s timers of the page pending at a time, per kind

\* The sessions of a run: the outbound call (the Inviter that makeCall
\* creates) and the inbound call (the Invitation that onInvite delivers).
\* A new call of either direction takes the place of a Terminated one.
NoSession == "null"   \* currentSession = null
SessionIds == {"Inviter", "Invitation"}

VARIABLES
    currentSession,   \* let currentSession: Session
    isOnHold,         \* let isOnHold: boolean
    sess,             \* the Session objects, by id
    senders,          \* pc.getSenders() of each session's peer connection
    retry,            \* pending retry getUserMedia continuations per session
    mk,               \* the makeCall coroutine
    ac,               \* the acceptCall coroutine
    sw,               \* the switchCamera coroutine
    last,             \* the operation that ran last and what it returned
    scn,              \* the usage scenario of the run
    page,             \* the call page: its remoteStream state, listeners, timers
    reg               \* ua, registerer and the initSIP invocations

vars == <<currentSession, isOnHold, sess, senders, retry, mk, ac, sw, last, scn,
          page, reg>>

Scenarios ==
    {"calls", "media", "overlap", "camera", "remote", "dial", "register",
     "handle"}

\* ------------------------------------------------------- target strings
\* A target is a string, kept as a sequence of lexical tokens: a scheme
\* prefix, a run of user/host characters, '@', or a character that the URI
\* grammar does not accept.
RegisteredURI == <<"sip:", "alice", "@", "example.org">>
DefaultDomain == "jsmwebrtc.my.id"
Schemes == {"sip:", "sips:"}
Words == {"bob", "alice", "example.org", DefaultDomain}

\* the targets dialled in a run
CallTargets == { <<"bob">>, <<"bob", " ", "bob">> }

Targets ==
    { <<"bob">>,
      <<"bob", "@", "example.org">>,
      <<"sip:", "bob", "@", "example.org">>,
      <<"sips:", "bob">>,
      <<"sip:", "alice", "@", DefaultDomain>>,
      <<"bob", " ", "bob">>,
      << >> }

Includes(str, tok) == \E i \in 1..Len(str) : str[i] = tok

StartsWithScheme(str) == Len(str) > 0 /\ str[1] \in Schemes

\* registeredURI.split('@')[1]?.split(';')[0] || 'jsmwebrtc.my.id'
DomainOf(uri) ==
    IF \E i \in 1..Len(uri) : uri[i] = "@" /\ i < Len(uri)
    THEN LET i == CHOOSE j \in 1..Len(uri) :
                     /\ uri[j] = "@"
                     /\ \A k \in 1..(j-1) : uri[k] # "@"
         IN  IF i < Len(uri) THEN uri[i+1] ELSE DefaultDomain
    ELSE DefaultDomain

\* FormatTarget with the default domain appended whatever the registered
\* URI is
FormatTarget_DefaultDomain(target) ==
    LET withScheme == IF StartsWithScheme(target) THEN target
                      ELSE <<"sip:">> \o target
    IN  IF Includes(withScheme, "@") THEN withScheme
        ELSE withScheme \o <<"@", DefaultDomain>>

\* formattedTarget of makeCall / sendMessage / transferCall
FormatTarget(target) ==
    LET withScheme == IF StartsWithScheme(target) THEN target
                      ELSE <<"sip:">> \o target
    IN  IF Includes(withScheme, "@") THEN withScheme
        ELSE withScheme \o <<"@", DomainOf(RegisteredURI)>>

\* UserAgent.makeURI: defined only for scheme user '@' host
MakeURIValid(str) ==
    /\ Len(str) = 4
    /\ str[1] \in Schemes
    /\ str[2] \in Words
    /\ str[3] = "@"
    /\ str[4] \in Words

\* ------------------------------------------------------------- sessions
States == {"Initial", "Establishing", "Established", "Terminating", "Terminated"}

Rank(st) ==
    CASE st = "Initial" -> 0
      [] st = "Establishing" -> 1
      [] st = "Established" -> 2
      [] st = "Terminating" -> 3
      [] st = "Terminated" -> 4

NoSess ==
    [ dir |-> "none", state |-> "Initial", sdh |-> "none", video |-> FALSE,
      lsnEstablishing |-> FALSE, lsnEstablished |-> FALSE, hangupLsn |-> 0,
      sent |-> << >>, libMedia |-> FALSE, muted |-> FALSE, held |-> FALSE,
      appStream |-> "none", leak |-> FALSE, recv |-> {} ]

Idle ==
    [pc |-> "idle", sid |-> NoSession, video |-> FALSE, target |-> << >>,
     old |-> "-"]

\* a track as getUserMedia delivers it: enabled, live, and (the camera of a
\* video track) facing the user
Track(k) ==
    [kind |-> k, enabled |-> TRUE, ready |-> "live",
     facing |-> IF k = "video" THEN "user" ELSE "-"]

\* the tracks of a stream from getUserMedia({audio: true, video: withVideo})
StreamTracks(withVideo) ==
    IF withVideo THEN <<Track("audio"), Track("video")>> ELSE <<Track("audio")>>

AudioIdx(snd) == { i \in 1..Len(snd) : snd[i].kind = "audio" }
VideoIdx(snd) == { i \in 1..Len(snd) : snd[i].kind = "video" }

HasEnabledAudio(snd) == \E i \in AudioIdx(snd) : snd[i].enabled

Reachable(s) == s # NoSession /\ sess[s].sdh = "pc"

\* the call in slot s is over (or there is none): the session is
\* Terminated and no continuation of the call operations is pending on it
Over(s) ==
    /\ sess[s].dir = "none" \/ sess[s].state = "Terminated"
    /\ retry[s] = 0
    /\ mk.sid # s /\ ac.sid # s /\ sw.sid # s

\* a session object can be created in slot s: the call there is over and
\* no timer of the page still refers to it
Free(s) == Over(s) /\ page.timer[s] = 0

NewSess(s) == [NoSess EXCEPT !.dir = s]

\* Creating session s assigns currentSession, so a Terminated session in the
\* other slot with nothing pending is referenced by nothing from then on:
\* it is dropped.
Create(s, sr) ==
    [t \in SessionIds |->
        IF t = s THEN sr ELSE IF Free(t) THEN NoSess ELSE sess[t]]

CreateSenders(s) ==
    [t \in SessionIds |->
        IF t = s \/ Free(t) THEN << >> ELSE senders[t]]

\* ---------------------------------------------------------- registration
\* Every initSIP invocation has its own isPromiseSettled and
\* registrationTimeout, its own UserAgent and (once the transport is up) its
\* own Registerer; the module variables ua and registerer hold the ones
\* assigned last.
AttemptIds == 1..MaxAttempts

NoAttempt ==
    [ pc |-> "none",              \* none, starting, registering, failed
      isPromiseSettled |-> FALSE,
      registrationTimeout |-> FALSE,   \* the 10 s timer is running
      outcome |-> "pending",      \* how the promise of initSIP settled
      state |-> "none",           \* the state of the attempt's Registerer
      on |-> 0,                   \* the UserAgent that Registerer was built on
      failed |-> 0,               \* invocations of onRegistrationFailed
      first |-> "none" ]          \* the first event the attempt has seen

NoReg == [ua |-> 0, registerer |-> 0, att |-> [a \in AttemptIds |-> NoAttempt]]

\* the program after one initSIP that resolved
Registered ==
    [ ua |-> 1, registerer |-> 1,
      att |-> [a \in AttemptIds |->
                 IF a = 1
                 THEN [NoAttempt EXCEPT !.pc = "registering",
                                        !.isPromiseSettled = TRUE,
                                        !.outcome = "resolved",
                                        !.state = "Registered",
                                        !.on = 1,
                                        !.first = "Registered"]
                 ELSE NoAttempt] ]

\* SafeResolve that does not look at isPromiseSettled
SafeResolve_Unguarded(at) ==
    [at EXCEPT !.isPromiseSettled = TRUE,
               !.registrationTimeout = FALSE,
               !.outcome = "resolved"]

\* safeResolve()
SafeResolve(at) ==
    IF ~at.isPromiseSettled
    THEN [at EXCEPT !.isPromiseSettled = TRUE,
                    !.registrationTimeout = FALSE,
                    !.outcome = "resolved"]
    ELSE at

\* SafeReject that leaves the registration timer running
SafeReject_KeepTimer(at, error) ==
    IF ~at.isPromiseSettled
    THEN [at EXCEPT !.isPromiseSettled = TRUE,
                    !.failed = @ + 1,
                    !.outcome = error]
    ELSE at

\* safeReject(error)
SafeReject(at, error) ==
    IF ~at.isPromiseSettled
    THEN [at EXCEPT !.isPromiseSettled = TRUE,
                    !.registrationTimeout = FALSE,
                    !.failed = @ + 1,
                    !.outcome = error]
    ELSE at

\* the attempt sees event ev; first keeps the earliest one
Seen(at, ev) == IF at.first = "none" THEN [at EXCEPT !.first = ev] ELSE at

\* the stateChange listener of the Registerer
OnRegistererState(at, st) ==
    CASE st = "Registered" -> SafeResolve(at)
      [] st = "Unregistered" ->
            IF ~at.isPromiseSettled THEN SafeReject(at, "RegistrationError") ELSE at
      [] OTHER -> at

\* the callback of the registration timer
OnRegistrationTimeout(at) ==
    IF ~at.isPromiseSettled THEN SafeReject(at, "Timeout") ELSE at

\* the states a Registerer may move to
RegistererNext(st) ==
    CASE st = "Initial" -> {"Registered", "Unregistered"}
      [] st = "Registered" -> {"Unregistered", "Terminated"}
      [] st = "Unregistered" -> {"Registered", "Terminated"}
      [] OTHER -> {}

\* ------------------------------------------------------------ call page
\* The page keeps the remote media it shows in its remoteStream state. Each
\* call handler builds a MediaStream of its own (remoteMediaStream, here
\* acc[s]) that its listeners keep adding to; remoteStream is null, that
\* very object ("live": it shows what the object holds now) or a copy made
\* from its tracks at one moment.
Kinds == {"audio", "video"}

NoStream == [obj |-> "null", sid |-> NoSession, tracks |-> {}]

LiveStream(s) == [obj |-> "live", sid |-> s, tracks |-> {}]

CopyStream(s, tracks) == [obj |-> "copy", sid |-> s, tracks |-> tracks]

NoPage ==
    [ remoteStream |-> NoStream,
      acc |-> [s \in SessionIds |-> {}],
      stateLsn |-> [s \in SessionIds |-> FALSE],
      trackLsn |-> [s \in SessionIds |-> FALSE],
      timer |-> [s \in SessionIds |-> 0],
      inCall |-> FALSE,
      endTimers |-> [c \in BOOLEAN |-> 0] ]

\* remoteStream.getTracks()
RemoteTracks(pg) ==
    CASE pg.remoteStream.obj = "null" -> {}
      [] pg.remoteStream.obj = "live" -> pg.acc[pg.remoteStream.sid]
      [] OTHER -> pg.remoteStream.tracks

\* a new session object takes slot s: the page has no listener on it (nor
\* on a session that is dropped with it)
PageNew(pg, s) ==
    LET gone == { t \in SessionIds : t = s \/ Free(t) } IN
    [pg EXCEPT !.acc = [t \in SessionIds |-> IF t \in gone THEN {} ELSE @[t]],
               !.stateLsn = [t \in SessionIds |-> t \notin gone /\ @[t]],
               !.trackLsn = [t \in SessionIds |-> t \notin gone /\ @[t]]]

\* the media part of both call handlers: remoteMediaStream gets the tracks
\* of pc.getReceivers(), the 'track' listener is registered, and the
\* stream is shown if it has a track
PageMedia(pg, s, recv) ==
    [pg EXCEPT !.acc[s] = recv,
               !.trackLsn[s] = TRUE,
               !.remoteStream = IF recv # {} THEN LiveStream(s) ELSE @]

\* the local part of both call handlers: every sender's track is enabled
\* while the local stream of the page is put together
PageLocal(snd) == [i \in 1..Len(snd) |-> [snd[i] EXCEPT !.enabled = TRUE]]

\* the senders after the Established branch of handleOutgoingCall
PageEstablishedSenders(pg, s, sr, snd) ==
    IF pg.stateLsn[s] /\ sr.dir = "Inviter" /\ sr.sdh = "pc"
    THEN PageLocal(snd)
    ELSE snd

\* the senders after handleCallAccepted
PageAcceptedSenders(sr, snd, handle) ==
    IF sr.sdh = "pc" /\ handle THEN PageLocal(snd) ELSE snd

\* the 30 s timer of the call handlers is started. Its callback tests the
\* inCall of the render the handler belongs to, that is the value inCall
\* had before the handler ran; the timers pending are counted by that value
PageEndTimer(pg) == [pg EXCEPT !.endTimers[pg.inCall] = @ + 1]

\* handleOutgoingCall(session): setInCall(true), then the state listener is
\* registered or, when the session has no stateChange emitter, the 30 s
\* timer is started
PageOutgoing(pg, s, emitter) ==
    IF emitter
    THEN [pg EXCEPT !.inCall = TRUE, !.stateLsn[s] = TRUE]
    ELSE [PageEndTimer(pg) EXCEPT !.inCall = TRUE]

\* the state listener of handleOutgoingCall, Established branch: the media
\* part, and with a remote track there the first of the two chained
\* one-second timers is started
PageEstablished(pg, s, sr) ==
    IF pg.stateLsn[s] /\ sr.dir = "Inviter" /\ sr.sdh = "pc"
    THEN [PageMedia(pg, s, sr.recv) EXCEPT
             !.timer[s] = IF sr.recv # {} THEN 1 ELSE @]
    ELSE pg

\* handleCallAccepted(): setInCall(true), the state listener is registered,
\* then the media part runs at once or, when the invitation shows no peer
\* connection, the 30 s timer is started
PageAccepted(pg, s, sr, handle) ==
    IF sr.sdh = "pc" /\ handle
    THEN PageMedia([pg EXCEPT !.inCall = TRUE, !.stateLsn[s] = TRUE], s, sr.recv)
    ELSE [PageEndTimer(pg) EXCEPT !.inCall = TRUE, !.stateLsn[s] = TRUE]

\* the state listeners, Terminated branch: setRemoteStream(null). No
\* listener on the session or its closed peer connection runs after that,
\* and remoteMediaStream is read again by a pending timer only
PageTerminated(pg, s, sr) ==
    IF pg.stateLsn[s] /\ sr.state = "Terminated"
    THEN [pg EXCEPT !.remoteStream = NoStream,
                    !.inCall = FALSE,
                    !.stateLsn[s] = FALSE,
                    !.trackLsn[s] = FALSE,
                    !.acc[s] = IF pg.timer[s] = 0 THEN {} ELSE @]
    ELSE pg

\* PageTrack that adds the tracks to remoteMediaStream and shows nothing
PageTrack_AccumulateOnly(pg, s, tracks) ==
    IF pg.trackLsn[s]
    THEN [pg EXCEPT !.acc[s] = @ \cup tracks]
    ELSE pg

\* the 'track' listener: the tracks of event.streams[0] (or, without a
\* stream, event.track) are added to remoteMediaStream and a copy of it is
\* shown
PageTrack(pg, s, tracks) ==
    IF pg.trackLsn[s]
    THEN [pg EXCEPT !.acc[s] = @ \cup tracks,
                    !.remoteStream = CopyStream(s, pg.acc[s] \cup tracks)]
    ELSE pg

\* no call is live or being set up
NoCall ==
    /\ \A s \in SessionIds : Over(s)
    /\ mk.pc = "idle" /\ ac.pc = "idle"

\* what an operation leaves in last: its name, what it returned (or threw),
\* the session it acted on, and a count n (makeCall / acceptCall: the
\* getUserMedia requests it made; debugAudioTracks: the tracks it fixed)
\* pre (hangupCall only): the state the session was in when it was hung up
\* stream (makeCall / acceptCall): the state of the local stream the
\* operation acquired, at the time it returned or threw
\* target, uri: the target an operation was given and the URI it sent its
\* request to
ResultN(op, ret, sid, n) ==
    [ op |-> op, ret |-> ret, sid |-> sid, n |-> n, pre |-> "-",
      stream |-> "none", target |-> << >>, uri |-> << >> ]

\* the result of an operation that dispatched a request to the URI made of
\* its formatted target (makeCall, sendMessage, transferCall)
Dispatched(r, target) ==
    [r EXCEPT !.target = target, !.uri = FormatTarget(target)]

\* the result of a makeCall / acceptCall whose getUserMedia has resolved:
\* neither the try block nor the catch block stops a track of the stream
ResultStream(op, ret, sid) ==
    [ResultN(op, ret, sid, 1) EXCEPT !.stream = "live"]

Result(op, ret, sid) == ResultN(op, ret, sid, 0)

Init ==
    /\ currentSession = NoSession
    /\ isOnHold = FALSE
    /\ sess = [s \in SessionIds |-> NoSess]
    /\ senders = [s \in SessionIds |-> << >>]
    /\ retry = [s \in SessionIds |-> 0]
    /\ mk = Idle
    /\ ac = Idle
    /\ sw = Idle
    /\ last = Result("init", "void", NoSession)
    /\ scn \in Scenarios
    /\ page = NoPage
    /\ reg = IF scn = "register" THEN NoReg ELSE Registered

\* ----------------------------------------------- state-change listeners
\* addTracksToConnection(session, mediaStream): the tracks of the stream
\* acquired by makeCall / acceptCall are added unless an enabled audio
\* sender is already there.
AddTracksToConnection(sr, snd) ==
    IF sr.sdh = "pc" /\ ~HasEnabledAudio(snd)
    THEN snd \o StreamTracks(sr.video)
    ELSE snd

\* where the stream of makeCall / acceptCall is after the Establishing
\* listener ran: on the peer connection when its tracks were added, else
\* still held by the listener's closure alone
AppStream(sr, snd) ==
    IF sr.lsnEstablishing /\ sr.appStream = "held"
       /\ AddTracksToConnection(sr, snd) # snd
    THEN "added"
    ELSE sr.appStream

\* senders.forEach of the Established listeners: a disabled audio track is
\* enabled.
EnableAudio(snd) ==
    [i \in 1..Len(snd) |->
        IF snd[i].kind = "audio" /\ ~snd[i].enabled
        THEN [snd[i] EXCEPT !.enabled = TRUE]
        ELSE snd[i]]

\* the Established listeners start a second getUserMedia when no audio
\* sender is there or none is enabled
NeedsRetry(snd) == AudioIdx(snd) = {} \/ ~HasEnabledAudio(snd)

\* what the listeners registered by makeCall / acceptCall do to the senders
\* when the session reports state st; retry is the number of getUserMedia
\* requests they start
OnStateChange(sr, snd, st) ==
    IF st = "Establishing" /\ sr.lsnEstablishing
    THEN [snd |-> AddTracksToConnection(sr, snd), retry |-> 0]
    ELSE IF st = "Established" /\ sr.lsnEstablished /\ sr.sdh = "pc"
    THEN [snd |-> EnableAudio(snd), retry |-> IF NeedsRetry(snd) THEN 1 ELSE 0]
    ELSE [snd |-> snd, retry |-> 0]

\* the session reaches Terminated: the peer connection is closed and the
\* hangupCall listeners remove themselves
ToTerminated(sr) ==
    [sr EXCEPT !.state = "Terminated",
               !.hangupLsn = 0,
               !.sdh = IF @ = "none" THEN "none" ELSE "nopc"]

\* invitation.reject(): acts in Initial and Establishing only
Reject(sr) ==
    IF sr.state \in {"Initial", "Establishing"}
    THEN [ToTerminated(sr) EXCEPT !.sent = Append(@, "reject")]
    ELSE sr

\* ua.delegate.onInvite
OnInvite ==
    LET s == "Invitation" IN
    /\ Free(s)
    /\ sess' = Create(s, NewSess(s))
    /\ senders' = CreateSenders(s)
    /\ currentSession' = s
    /\ page' = PageNew(page, s)
    /\ last' = Result("onInvite", "void", NoSession)
    /\ UNCHANGED <<isOnHold, retry, mk, ac, sw, scn, reg>>

\* the outcomes of navigator.mediaDevices.getUserMedia
MediaOutcomes == {"ok", "NotAllowedError", "NotFoundError", "OtherError"}

\* the error a failed getUserMedia reaches the caller of makeCall /
\* acceptCall as (the catch blocks)
MediaError(outcome) ==
    CASE outcome = "NotAllowedError" -> "PermissionDenied"
      [] outcome = "NotFoundError" -> "DeviceNotFound"
      [] OTHER -> "OtherError"

CanAdd(snd, withVideo) == Len(snd) + Len(StreamTracks(withVideo)) <= MaxSenders

\* ---------------------------------------------------------------- makeCall
\* makeCall(target, withVideo) up to its first await: getUserMedia is
\* requested before anything else.
MakeCall(target, withVideo) ==
    /\ mk.pc = "idle"
    /\ mk' = [Idle EXCEPT !.pc = "gum", !.video = withVideo, !.target = target]
    /\ last' = ResultN("makeCall", "pending", NoSession, 1)
    /\ UNCHANGED <<currentSession, isOnHold, sess, senders, retry, ac, sw, scn, reg, page>>

\* getUserMedia rejects: the catch block rethrows
MakeCallNoMedia(outcome) ==
    /\ mk.pc = "gum"
    /\ outcome # "ok"
    /\ mk' = Idle
    /\ last' = ResultN("makeCall", MediaError(outcome), NoSession, 1)
    /\ UNCHANGED <<currentSession, isOnHold, sess, senders, retry, ac, sw, scn, reg, page>>

\* getUserMedia resolves, the target does not make a URI: the error is
\* thrown with the stream acquired
MakeCallInvalidTarget ==
    /\ mk.pc = "gum"
    /\ ~MakeURIValid(FormatTarget(mk.target))
    /\ mk' = Idle
    /\ last' = ResultStream("makeCall", "InvalidTarget", NoSession)
    /\ UNCHANGED <<currentSession, isOnHold, sess, senders, retry, ac, sw, scn, reg, page>>

\* getUserMedia resolves and the target is valid: the Inviter is created,
\* becomes the current session, gets its listeners, and invite() is called
\* (which sets up the session description handler and its peer connection)
MakeCallInvite ==
    /\ mk.pc = "gum"
    /\ MakeURIValid(FormatTarget(mk.target))
    /\ LET s == "Inviter" IN
        /\ Free(s)
        /\ senders' = CreateSenders(s)
        /\ sess' = Create(s, [NewSess(s) EXCEPT !.video = mk.video,
                                                !.lsnEstablishing = TRUE,
                                                !.lsnEstablished = TRUE,
                                                !.appStream = "held",
                                                !.sdh = "pc"])
        /\ currentSession' = s
        /\ mk' = [Idle EXCEPT !.pc = "inviting", !.sid = s]
        /\ page' = PageNew(page, s)
        /\ last' = Dispatched(ResultN("makeCall", "pending", s, 1), mk.target)
    /\ UNCHANGED <<isOnHold, retry, ac, sw, scn, reg>>

\* the session description handler acquires its own local media and adds
\* the tracks to the peer connection (Inviter: while the offer is made;
\* Invitation: while the answer is made)
LocalMedia(s) ==
    /\ sess[s].sdh = "pc"
    /\ ~sess[s].libMedia
    /\ \/ sess[s].dir = "Inviter" /\ sess[s].state = "Initial"
       \/ sess[s].dir = "Invitation" /\ sess[s].state = "Establishing"
    /\ CanAdd(senders[s], sess[s].video)
    /\ senders' = [senders EXCEPT ![s] = @ \o StreamTracks(sess[s].video)]
    /\ sess' = [sess EXCEPT ![s].libMedia = TRUE]
    /\ last' = Result("localMedia", "void", NoSession)
    /\ UNCHANGED <<currentSession, isOnHold, retry, mk, ac, sw, scn, reg, page>>

\* the INVITE goes out: the Inviter enters Establishing, its listeners run,
\* the promise of invite() resolves and makeCall returns the inviter, which
\* the dialer hands to the page (handleOutgoingCall)
InviteSent(s, emitter) ==
    /\ mk.pc = "inviting" /\ mk.sid = s
    /\ emitter \/ page.endTimers[page.inCall] < MaxEndTimers
    /\ sess[s].state = "Initial"
    /\ sess[s].libMedia
    /\ LET sr == [sess[s] EXCEPT !.state = "Establishing"]
           r == OnStateChange(sr, senders[s], "Establishing")
       IN  /\ Len(r.snd) <= MaxSenders
           /\ sess' = [sess EXCEPT ![s] =
                         [sr EXCEPT !.appStream = AppStream(sr, senders[s])]]
           /\ senders' = [senders EXCEPT ![s] = r.snd]
    /\ mk' = Idle
    /\ page' = PageOutgoing(page, s, emitter)
    /\ last' = ResultStream("makeCall", "ok", s)
    /\ UNCHANGED <<currentSession, isOnHold, retry, ac, sw, scn, reg>>

\* invite() fails (no offer, or the session was cancelled before the INVITE
\* went out): the Inviter is Terminated and makeCall rethrows
InviteFailed(s) ==
    /\ mk.pc = "inviting" /\ mk.sid = s
    /\ sess[s].state \in {"Initial", "Terminating"}
    /\ sess' = [sess EXCEPT ![s] = ToTerminated(@)]
    /\ mk' = Idle
    /\ last' = ResultStream("makeCall", "OtherError", s)
    /\ UNCHANGED <<currentSession, isOnHold, senders, retry, ac, sw, scn, reg, page>>

\* the remote party answers: the Inviter enters Established and its
\* listeners run, those of makeCall first, then the one of the page
Answered(s) ==
    /\ sess[s].dir = "Inviter"
    /\ sess[s].state = "Establishing"
    /\ LET sr == [sess[s] EXCEPT !.state = "Established"]
           r == OnStateChange(sr, senders[s], "Established")
       IN  /\ sess' = [sess EXCEPT ![s] = sr]
           /\ senders' = [senders EXCEPT ![s] =
                            PageEstablishedSenders(page, s, sr, r.snd)]
           /\ retry' = [retry EXCEPT ![s] = @ + r.retry]
           /\ page' = PageEstablished(page, s, sr)
    /\ last' = Result("stateChange", "Established", NoSession)
    /\ UNCHANGED <<currentSession, isOnHold, mk, ac, sw, scn, reg>>

\* the dialog ends from the other side or the transport: remote BYE, remote
\* CANCEL, a failure response, or the end of a teardown that is under way
RemoteEnd(s) ==
    /\ sess[s].dir # "none"
    /\ sess[s].state # "Terminated"
    /\ ~(mk.pc = "inviting" /\ mk.sid = s)
    /\ ~(ac.pc = "accepting" /\ ac.sid = s)
    /\ sess' = [sess EXCEPT ![s] = ToTerminated(@)]
    /\ page' = PageTerminated(page, s, ToTerminated(sess[s]))
    /\ last' = Result("stateChange", "Terminated", NoSession)
    /\ UNCHANGED <<currentSession, isOnHold, senders, retry, mk, ac, sw, scn, reg>>

\* the retry getUserMedia of an Established listener settles: its tracks
\* are added to the peer connection the listener captured; addTrack throws
\* when that connection is closed by then, and the new stream stays live
\* with nothing referring to it
RetryMedia(s, outcome) ==
    /\ retry[s] > 0
    /\ retry' = [retry EXCEPT ![s] = @ - 1]
    /\ IF outcome = "ok" /\ sess[s].sdh = "pc"
       THEN /\ CanAdd(senders[s], sess[s].video)
            /\ senders' = [senders EXCEPT ![s] = @ \o StreamTracks(sess[s].video)]
            /\ UNCHANGED sess
       ELSE /\ UNCHANGED senders
            /\ sess' = [sess EXCEPT ![s].leak = @ \/ outcome = "ok"]
    /\ last' = Result("retryMedia", "void", NoSession)
    /\ UNCHANGED <<currentSession, isOnHold, mk, ac, sw, scn, reg, page>>

\* a remote track arrives on the peer connection of session s (the answer
\* or a later offer of the peer brings it): the receiver has it from now on
\* and the 'track' event fires, with or without the stream it belongs to
TrackArrives(s, k, withStream) ==
    /\ sess[s].sdh = "pc"
    /\ sess[s].state \in {"Establishing", "Established"}
    /\ k \notin sess[s].recv
    /\ sess' = [sess EXCEPT ![s].recv = @ \cup {k}]
    /\ page' = PageTrack(page, s, IF withStream THEN sess[s].recv \cup {k} ELSE {k})
    /\ last' = Result("track", "void", NoSession)
    /\ UNCHANGED <<currentSession, isOnHold, senders, retry, mk, ac, sw, scn, reg>>

\* one of the two chained timers of handleOutgoingCall fires: the first
\* starts the second, the second shows a copy of remoteMediaStream if that
\* has a track
RefreshTimer(s) ==
    /\ page.timer[s] > 0
    /\ page' = IF page.timer[s] = 1
               THEN [page EXCEPT !.timer[s] = 2]
               ELSE [page EXCEPT !.timer[s] = 0,
                                 !.remoteStream =
                                     IF page.acc[s] # {}
                                     THEN CopyStream(s, page.acc[s]) ELSE @]
    /\ last' = Result("timer", "void", NoSession)
    /\ UNCHANGED <<currentSession, isOnHold, sess, senders, retry, mk, ac, sw, scn, reg>>

\* a 30 s timer of the call handlers fires: the call state of the page is
\* reset if the inCall its callback captured is true
AutoEndTimer(captured) ==
    /\ page.endTimers[captured] > 0
    /\ page' = IF captured
               THEN [page EXCEPT !.endTimers[captured] = @ - 1,
                                 !.inCall = FALSE,
                                 !.remoteStream = NoStream]
               ELSE [page EXCEPT !.endTimers[captured] = @ - 1]
    /\ last' = Result("endTimer", "void", NoSession)
    /\ UNCHANGED <<currentSession, isOnHold, sess, senders, retry, mk, ac, sw, scn, reg>>

\* -------------------------------------------------------------- acceptCall
\* acceptCall(invitation, withVideo) up to its first await
AcceptCall(s, withVideo) ==
    /\ ac.pc = "idle"
    /\ sess[s].dir = "Invitation"
    /\ ac' = [Idle EXCEPT !.pc = "gum", !.sid = s, !.video = withVideo]
    /\ last' = ResultN("acceptCall", "pending", s, 1)
    /\ UNCHANGED <<currentSession, isOnHold, sess, senders, retry, mk, sw, scn, reg, page>>

\* getUserMedia rejects: for a permission or device error the catch block
\* throws its own Error before it reaches invitation.reject(); any other
\* error rejects the invitation and is rethrown
AcceptCallNoMedia(outcome) ==
    /\ ac.pc = "gum"
    /\ outcome # "ok"
    /\ sess' = IF outcome \in {"NotAllowedError", "NotFoundError"}
               THEN sess
               ELSE [sess EXCEPT ![ac.sid] = Reject(@)]
    /\ ac' = Idle
    /\ last' = ResultN("acceptCall", MediaError(outcome), ac.sid, 1)
    /\ UNCHANGED <<currentSession, isOnHold, senders, retry, mk, sw, scn, reg, page>>

\* AcceptCallAccept with accept() acting whatever state the invitation is in
AcceptCallAccept_AnyState ==
    /\ ac.pc = "gum"
    /\ LET s == ac.sid
           sr == [sess[s] EXCEPT !.lsnEstablished = TRUE, !.video = ac.video,
                                 !.appStream = "held",
                                 !.state = "Establishing", !.sdh = "pc"]
           r == OnStateChange(sr, senders[s], "Establishing")
       IN  /\ Len(r.snd) <= MaxSenders
           /\ sess' = [sess EXCEPT ![s] = sr]
           /\ senders' = [senders EXCEPT ![s] = r.snd]
    /\ ac' = [ac EXCEPT !.pc = "accepting"]
    /\ last' = ResultN("acceptCall", "pending", ac.sid, 1)
    /\ UNCHANGED <<currentSession, isOnHold, retry, mk, sw, scn, reg, page>>

\* getUserMedia resolves: the Established listener is registered and
\* invitation.accept() is called, which enters Establishing at once and sets
\* up the session description handler
AcceptCallAccept ==
    /\ ac.pc = "gum"
    /\ sess[ac.sid].state = "Initial"
    /\ LET s == ac.sid
           sr == [sess[s] EXCEPT !.lsnEstablished = TRUE, !.video = ac.video,
                                 !.appStream = "held",
                                 !.state = "Establishing", !.sdh = "pc"]
           r == OnStateChange(sr, senders[s], "Establishing")
       IN  /\ Len(r.snd) <= MaxSenders
           /\ sess' = [sess EXCEPT ![s] = sr]
           /\ senders' = [senders EXCEPT ![s] = r.snd]
    /\ ac' = [ac EXCEPT !.pc = "accepting"]
    /\ last' = ResultN("acceptCall", "pending", ac.sid, 1)
    /\ UNCHANGED <<currentSession, isOnHold, retry, mk, sw, scn, reg, page>>

\* getUserMedia resolves but the invitation is no longer Initial: accept()
\* rejects, the catch block calls invitation.reject() and rethrows
AcceptCallStale ==
    /\ ac.pc = "gum"
    /\ sess[ac.sid].state # "Initial"
    /\ sess' = [sess EXCEPT ![ac.sid] =
                  Reject([@ EXCEPT !.lsnEstablished = TRUE, !.appStream = "held"])]
    /\ ac' = Idle
    /\ last' = ResultStream("acceptCall", "OtherError", ac.sid)
    /\ UNCHANGED <<currentSession, isOnHold, senders, retry, mk, sw, scn, reg, page>>

\* the answer is confirmed: the Invitation enters Established, the
\* Established listener runs, accept() resolves, and acceptCall goes on:
\* currentSession = invitation, then the Establishing listener is
\* registered; the incoming-call dialog then tells the page
\* (handleCallAccepted)
Accepted(s, handle) ==
    /\ ac.pc = "accepting" /\ ac.sid = s
    /\ handle \/ page.endTimers[page.inCall] < MaxEndTimers
    /\ sess[s].state = "Establishing"
    /\ sess[s].libMedia
    /\ LET sr == [sess[s] EXCEPT !.state = "Established"]
           r == OnStateChange(sr, senders[s], "Established")
       IN  /\ sess' = [sess EXCEPT ![s] = [sr EXCEPT !.lsnEstablishing = TRUE]]
           /\ senders' = [senders EXCEPT ![s] =
                            PageAcceptedSenders(sr, r.snd, handle)]
           /\ retry' = [retry EXCEPT ![s] = @ + r.retry]
           /\ page' = PageAccepted(page, s, sr, handle)
    /\ currentSession' = s
    /\ ac' = Idle
    /\ last' = ResultStream("acceptCall", "ok", s)
    /\ UNCHANGED <<isOnHold, mk, sw, scn, reg>>

\* accept() fails (remote CANCEL, no answer could be made): the Invitation is
\* Terminated; the catch block of acceptCall calls reject(), to no effect,
\* and rethrows
AcceptFailed(s) ==
    /\ ac.pc = "accepting" /\ ac.sid = s
    /\ sess[s].state = "Establishing"
    /\ sess' = [sess EXCEPT ![s] = ToTerminated(@)]
    /\ ac' = Idle
    /\ last' = ResultStream("acceptCall", "OtherError", s)
    /\ UNCHANGED <<currentSession, isOnHold, senders, retry, mk, sw, scn, reg, page>>

\* -------------------------------------------------------------- hangupCall
\* what session.bye() does to the state at once: Terminated when the dialog
\* is confirmed, Terminating while an Invitation still waits for the ACK
ByeOutcomes(sr) ==
    IF sr.dir = "Invitation" THEN {"Terminating", "Terminated"}
    ELSE {"Terminated"}

\* Terminate that cancels a session in Initial whatever its direction
Terminate_CancelInitial(sr, byeOutcome) ==
    IF sr.state = "Established"
    THEN IF byeOutcome = "Terminated"
         THEN [ToTerminated(sr) EXCEPT !.sent = Append(@, "bye")]
         ELSE [sr EXCEPT !.state = "Terminating", !.sent = Append(@, "bye")]
    ELSE IF sr.state = "Initial"
    THEN [sr EXCEPT !.state = "Terminating", !.sent = Append(@, "cancel")]
    ELSE sr

\* the termination request hangupCall sends for a session, and the state the
\* session is in when the call returns
Terminate(sr, byeOutcome) ==
    IF sr.state = "Established"
    THEN IF byeOutcome = "Terminated"
         THEN [ToTerminated(sr) EXCEPT !.sent = Append(@, "bye")]
         ELSE [sr EXCEPT !.state = "Terminating", !.sent = Append(@, "bye")]
    ELSE IF sr.state = "Initial"
    THEN IF sr.dir = "Inviter"
         THEN [sr EXCEPT !.state = "Terminating", !.sent = Append(@, "cancel")]
         ELSE Reject(sr)
    ELSE sr

\* HangupReference with the reference cleared in the Established branch only
HangupReference_EstablishedOnly(s) ==
    IF sess[s].state = "Established" THEN NoSession ELSE s

\* the reference hangupCall leaves in currentSession
HangupReference(s) == NoSession

\* HangupCall with an else branch that resets the hold flag
HangupCall_ResetsHoldWhenIdle ==
    IF currentSession = NoSession
    THEN /\ isOnHold' = FALSE
         /\ last' = IF last.op = "hangupCall"
                    THEN [last EXCEPT !.ret = "again"]
                    ELSE Result("hangupCall", "idle", NoSession)
         /\ UNCHANGED <<currentSession, sess, senders, retry, mk, ac, sw, scn, reg, page>>
    ELSE LET s == currentSession IN
         /\ \E o \in ByeOutcomes(sess[s]) :
               sess' = [sess EXCEPT ![s] =
                          [Terminate(@, o) EXCEPT !.hangupLsn = @ + 1]]
         /\ currentSession' = HangupReference(s)
         /\ page' = PageTerminated(page, s, sess'[s])
         /\ last' = [Result("hangupCall", "void", s) EXCEPT !.pre = sess[s].state]
         /\ UNCHANGED <<isOnHold, senders, retry, mk, ac, sw, scn, reg>>

\* hangupCall()
HangupCall ==
    IF currentSession = NoSession
    THEN /\ last' = IF last.op = "hangupCall"
                    THEN [last EXCEPT !.ret = "again"]
                    ELSE Result("hangupCall", "idle", NoSession)
         /\ UNCHANGED <<currentSession, isOnHold, sess, senders, retry,
                        mk, ac, sw, scn, reg, page>>
    ELSE LET s == currentSession IN
         /\ \E o \in ByeOutcomes(sess[s]) :
               sess' = [sess EXCEPT ![s] =
                          [Terminate(@, o) EXCEPT !.hangupLsn = @ + 1]]
         /\ currentSession' = HangupReference(s)
         /\ page' = PageTerminated(page, s, sess'[s])
         /\ last' = [Result("hangupCall", "void", s) EXCEPT !.pre = sess[s].state]
         /\ UNCHANGED <<isOnHold, senders, retry, mk, ac, sw, scn, reg>>

\* ------------------------------------------------------ control operations
SetEnabled(snd, kinds, value) ==
    [i \in 1..Len(snd) |->
        IF snd[i].kind \in kinds THEN [snd[i] EXCEPT !.enabled = value]
        ELSE snd[i]]

Bool(b) == IF b THEN "true" ELSE "false"

\* MuteEffect that sets the flag of every sender, whatever its kind
MuteEffect_AllSenders(snd, mute) == SetEnabled(snd, {"audio", "video"}, ~mute)

\* muteCall(mute): track.enabled = !mute on every audio sender
MuteEffect(snd, mute) == SetEnabled(snd, {"audio"}, ~mute)

MuteCall(mute) ==
    /\ IF Reachable(currentSession)
       THEN /\ senders' = [senders EXCEPT ![currentSession] = MuteEffect(@, mute)]
            /\ sess' = [sess EXCEPT ![currentSession].muted = mute]
       ELSE UNCHANGED <<senders, sess>>
    /\ last' = Result("muteCall", Bool(Reachable(currentSession)), currentSession)
    /\ UNCHANGED <<currentSession, isOnHold, retry, mk, ac, sw, scn, reg, page>>

\* HoldCall with the hold flag assigned ahead of the session check
HoldCall_FlagFirst(hold) ==
    /\ isOnHold' = hold
    /\ IF Reachable(currentSession)
       THEN /\ senders' = [senders EXCEPT ![currentSession] =
                             SetEnabled(@, {"audio", "video"}, ~hold)]
            /\ sess' = [sess EXCEPT ![currentSession].held = hold]
       ELSE UNCHANGED <<senders, sess>>
    /\ last' = Result("holdCall", Bool(Reachable(currentSession)), currentSession)
    /\ UNCHANGED <<currentSession, retry, mk, ac, sw, scn, page, reg>>

\* holdCall(hold): isOnHold is assigned as soon as a session description
\* handler is there, then track.enabled = !hold on every sender; a closed
\* peer connection makes getSenders throw and the call returns false
HoldEffect(snd, hold) == SetEnabled(snd, {"audio", "video"}, ~hold)

HoldCall(hold) ==
    /\ isOnHold' = IF currentSession # NoSession /\ sess[currentSession].sdh # "none"
                   THEN hold ELSE isOnHold
    /\ IF Reachable(currentSession)
       THEN /\ senders' = [senders EXCEPT ![currentSession] = HoldEffect(@, hold)]
            /\ sess' = [sess EXCEPT ![currentSession].held = hold]
       ELSE UNCHANGED <<senders, sess>>
    /\ last' = Result("holdCall", Bool(Reachable(currentSession)), currentSession)
    /\ UNCHANGED <<currentSession, retry, mk, ac, sw, scn, reg, page>>

\* toggleVideo(enable): track.enabled = enable on every video sender
ToggleVideo(enable) ==
    /\ IF Reachable(currentSession)
       THEN senders' = [senders EXCEPT ![currentSession] =
                           SetEnabled(@, {"video"}, enable)]
       ELSE UNCHANGED senders
    /\ last' = Result("toggleVideo", Bool(Reachable(currentSession)), currentSession)
    /\ UNCHANGED <<currentSession, isOnHold, sess, retry, mk, ac, sw, scn, reg, page>>

\* sendDtmf(tone): true whenever the session has a description handler
SendDtmf ==
    /\ last' = Result("sendDtmf",
                      Bool(currentSession # NoSession
                           /\ sess[currentSession].sdh # "none"),
                      currentSession)
    /\ UNCHANGED <<currentSession, isOnHold, sess, senders, retry, mk, ac, sw, scn, reg, page>>

\* TransferCall that does not look at the direction of the session
TransferCall_AnyDirection(target) ==
    /\ last' = IF /\ currentSession # NoSession
                  /\ MakeURIValid(FormatTarget(target))
               THEN Dispatched(Result("transferCall", "true", currentSession),
                               target)
               ELSE Result("transferCall", "false", currentSession)
    /\ UNCHANGED <<currentSession, isOnHold, sess, senders, retry, mk, ac, sw, scn, reg, page>>

\* transferCall(target): refer() and true for an Inviter and a target that
\* makes a URI
TransferCall(target) ==
    /\ last' = IF /\ currentSession # NoSession
                  /\ sess[currentSession].dir = "Inviter"
                  /\ MakeURIValid(FormatTarget(target))
               THEN Dispatched(Result("transferCall", "true", currentSession),
                               target)
               ELSE Result("transferCall", "false", currentSession)
    /\ UNCHANGED <<currentSession, isOnHold, sess, senders, retry, mk, ac, sw, scn, reg, page>>

\* the video sender switchCamera works on: the first one
FirstVideo(snd) == CHOOSE j \in VideoIdx(snd) : \A k \in VideoIdx(snd) : j <= k

\* newFacingMode: 'environment' after 'user', 'user' after anything else
NewFacingMode(facing) == IF facing = "user" THEN "environment" ELSE "user"

\* videoSender.replaceTrack(newTrack): sender i carries a fresh track
ReplaceTrack(snd, i, facing) ==
    [snd EXCEPT ![i] = [Track("video") EXCEPT !.facing = facing]]

\* currentTrack.stop(): the track captured at the start ends; sender i shows
\* it only while it still carries that track
StopTrack(snd, i, facing) ==
    IF snd[i].facing = facing THEN [snd EXCEPT ![i].ready = "ended"] ELSE snd

\* sendMessage(target, message) up to the return of its executor: rejected
\* without a user agent or with a target that makes no URI, else the
\* MESSAGE is sent
SendMessage(target) ==
    /\ last' = IF reg.ua = 0
               THEN Result("sendMessage", "NotInitialized", NoSession)
               ELSE IF ~MakeURIValid(FormatTarget(target))
               THEN Result("sendMessage", "InvalidTarget", NoSession)
               ELSE Dispatched(Result("sendMessage", "pending", NoSession), target)
    /\ UNCHANGED <<currentSession, isOnHold, sess, senders, retry, mk, ac, sw,
                   scn, page, reg>>

\* switchCamera() up to its first await: false unless the session has a
\* video sender on a reachable peer connection; else the sender's track is
\* captured and getUserMedia is requested for the other camera
SwitchCamera ==
    /\ sw.pc = "idle"
    /\ IF Reachable(currentSession) /\ VideoIdx(senders[currentSession]) # {}
       THEN LET snd == senders[currentSession] IN
            /\ sw' = [Idle EXCEPT !.pc = "gum", !.sid = currentSession,
                                  !.old = snd[FirstVideo(snd)].facing]
            /\ last' = Result("switchCamera", "pending", currentSession)
       ELSE /\ sw' = sw
            /\ last' = Result("switchCamera", "false", currentSession)
    /\ UNCHANGED <<currentSession, isOnHold, sess, senders, retry, mk, ac, scn, reg, page>>

\* SwitchCameraMedia with the captured track stopped as soon as the new one
\* is there, ahead of replaceTrack
SwitchCameraMedia_StopFirst(outcome) ==
    /\ sw.pc = "gum"
    /\ IF outcome = "ok"
       THEN /\ sw' = [sw EXCEPT !.pc = "replacing"]
            /\ senders' = [senders EXCEPT ![sw.sid] =
                             StopTrack(@, FirstVideo(@), sw.old)]
            /\ last' = Result("switchCamera", "pending", sw.sid)
       ELSE /\ sw' = Idle
            /\ UNCHANGED senders
            /\ last' = Result("switchCamera", "false", sw.sid)
    /\ UNCHANGED <<currentSession, isOnHold, sess, retry, mk, ac, scn, reg, page>>

\* getUserMedia settles: a rejection returns false; with the new stream,
\* replaceTrack is called on the captured sender and awaited
SwitchCameraMedia(outcome) ==
    /\ sw.pc = "gum"
    /\ IF outcome = "ok"
       THEN /\ sw' = [sw EXCEPT !.pc = "replacing"]
            /\ last' = Result("switchCamera", "pending", sw.sid)
       ELSE /\ sw' = Idle
            /\ last' = Result("switchCamera", "false", sw.sid)
    /\ UNCHANGED <<currentSession, isOnHold, sess, senders, retry, mk, ac, scn, reg, page>>

\* replaceTrack settles. Resolved: the sender carries the new track, the
\* captured track is stopped, true is returned. Rejected (the peer
\* connection was closed meanwhile, or the negotiation fails): false is
\* returned and the new track stays live
SwitchCameraDone(outcome) ==
    /\ sw.pc = "replacing"
    /\ IF outcome = "ok" /\ sess[sw.sid].sdh = "pc"
       THEN LET snd == senders[sw.sid]
                i == FirstVideo(snd)
            IN  /\ senders' = [senders EXCEPT ![sw.sid] =
                                 StopTrack(ReplaceTrack(snd, i, NewFacingMode(sw.old)),
                                           i, sw.old)]
                /\ last' = Result("switchCamera", "true", sw.sid)
                /\ UNCHANGED sess
       ELSE /\ UNCHANGED senders
            /\ sess' = [sess EXCEPT ![sw.sid].leak = TRUE]
            /\ last' = Result("switchCamera", "false", sw.sid)
    /\ sw' = Idle
    /\ UNCHANGED <<currentSession, isOnHold, retry, mk, ac, scn, reg, page>>

\* DebugFix that counts the disabled audio senders and enables none
DebugFix_CountOnly(snd) == snd

\* debugAudioTracks(): every disabled audio sender is enabled and counted
DebugFix(snd) == EnableAudio(snd)

FixedTracks(snd) == Cardinality({ i \in AudioIdx(snd) : ~snd[i].enabled })

\* DebugStatus without the check for audio senders
DebugStatus_NoAudioCheck(s) ==
    IF s = NoSession THEN "error: No active call"
    ELSE IF sess[s].sdh = "none" THEN "error: No sessionDescriptionHandler found"
    ELSE IF sess[s].sdh # "pc" THEN "error: No peerConnection found"
    ELSE "success"

\* the report of debugAudioTracks: its status and, for an error, its message
DebugStatus(s) ==
    IF s = NoSession THEN "error: No active call"
    ELSE IF sess[s].sdh = "none" THEN "error: No sessionDescriptionHandler found"
    ELSE IF sess[s].sdh # "pc" THEN "error: No peerConnection found"
    ELSE IF AudioIdx(senders[s]) = {} THEN "error: No audio tracks found"
    ELSE "success"

DebugAudioTracks ==
    /\ IF Reachable(currentSession)
       THEN senders' = [senders EXCEPT ![currentSession] = DebugFix(@)]
       ELSE UNCHANGED senders
    /\ last' = ResultN("debugAudioTracks", DebugStatus(currentSession),
                       currentSession,
                       IF Reachable(currentSession)
                       THEN FixedTracks(senders[currentSession]) ELSE 0)
    /\ UNCHANGED <<currentSession, isOnHold, sess, retry, mk, ac, sw, scn, reg, page>>

\* handleDebugAudio of the call controls: what the alert of a report says
DebugAlert(status) ==
    IF status = "success" THEN "message" ELSE "Audio issue detected"

\* getCallState()
GetCallState ==
    IF currentSession = NoSession THEN "Idle" ELSE sess[currentSession].state

\* isCallOnHold()
IsCallOnHold == isOnHold

\* ----------------------------------------------------------------- initSIP
\* initSIP(config) up to the return of its executor: the UserAgent is
\* created and assigned to ua, its delegate set, start() called. A throw in
\* there (started = FALSE) goes to safeReject of the catch block.
InitSIP(started) ==
    /\ \E a \in AttemptIds :
          /\ reg.att[a].pc = "none"
          /\ \A b \in AttemptIds : b < a => reg.att[b].pc # "none"
          /\ reg' = IF started
                    THEN [reg EXCEPT !.ua = a, !.att[a].pc = "starting"]
                    ELSE [reg EXCEPT !.att[a] =
                             SafeReject(Seen([@ EXCEPT !.pc = "failed"], "Error"),
                                        "Error")]
    /\ last' = Result("initSIP", "pending", NoSession)
    /\ UNCHANGED <<currentSession, isOnHold, sess, senders, retry, mk, ac, sw,
                   scn, page>>

\* ua.start() resolves: the Registerer is created on the UserAgent that the
\* module variable ua holds now and assigned, its listener and the 10 s
\* timer are set up, register() is called
StartResolved(a) ==
    /\ reg.att[a].pc = "starting"
    /\ reg' = [reg EXCEPT !.registerer = a,
                          !.att[a].pc = "registering",
                          !.att[a].registrationTimeout = TRUE,
                          !.att[a].state = "Initial",
                          !.att[a].on = reg.ua]
    /\ last' = Result("event", "void", NoSession)
    /\ UNCHANGED <<currentSession, isOnHold, sess, senders, retry, mk, ac, sw,
                   scn, page>>

\* ua.start() rejects: the transport did not come up
StartRejected(a) ==
    /\ reg.att[a].pc = "starting"
    /\ reg' = [reg EXCEPT !.att[a] =
                  SafeReject(Seen([@ EXCEPT !.pc = "failed"], "Error"), "Error")]
    /\ last' = Result("event", "void", NoSession)
    /\ UNCHANGED <<currentSession, isOnHold, sess, senders, retry, mk, ac, sw,
                   scn, page>>

\* the Registerer of attempt a changes state and its listener runs
RegistererState(a, st) ==
    /\ reg.att[a].pc = "registering"
    /\ st \in RegistererNext(reg.att[a].state)
    /\ reg' = [reg EXCEPT !.att[a] =
                  OnRegistererState(Seen([@ EXCEPT !.state = st], st), st)]
    /\ last' = Result("event", "void", NoSession)
    /\ UNCHANGED <<currentSession, isOnHold, sess, senders, retry, mk, ac, sw,
                   scn, page>>

\* the registration timer of attempt a fires
RegistrationTimeout(a) ==
    /\ reg.att[a].registrationTimeout
    /\ reg' = [reg EXCEPT !.att[a] =
                  OnRegistrationTimeout(
                      Seen([@ EXCEPT !.registrationTimeout = FALSE], "Timeout"))]
    /\ last' = Result("event", "void", NoSession)
    /\ UNCHANGED <<currentSession, isOnHold, sess, senders, retry, mk, ac, sw,
                   scn, page>>

\* ------------------------------------------------------------ scenarios
\* A run explores one usage scenario, fixed by Init:
\*   "calls"   audio calls of both directions, one after the other, with the
\*             control operations tried where they cannot reach senders;
\*   "media"   one call, with the control operations at every point of it;
\*   "overlap" audio calls placed and received while another call is live;
\*   "camera"  one video call, with the camera switched at every point of it;
\*   "remote"  audio calls, one after the other, with remote tracks arriving;
\*   "dial"    one audio call, messages and transfers, to every kind of target;
\*   "register" initSIP invoked up to MaxAttempts times, and messages;
\*   "handle"  audio calls, one after the other, whose session may reach the
\*             page handlers without a stateChange emitter (outbound) or
\*             without a peer connection (inbound).
FirstCall == NoCall /\ \A s \in SessionIds : sess[s].dir = "none"

\* a call may be placed or received now
MayCall ==
    CASE scn = "calls" -> NoCall
      [] scn \in {"media", "camera", "dial"} -> FirstCall
      [] scn \in {"remote", "handle"} -> NoCall
      [] scn = "overlap" -> TRUE
      [] OTHER -> FALSE

\* the withVideo arguments used
VideoArgs ==
    CASE scn \in {"calls", "overlap", "remote", "dial", "handle"} -> {FALSE}
      [] scn = "camera" -> {TRUE}
      [] OTHER -> BOOLEAN

\* a control operation may be invoked now
MayControl == scn = "media" \/ (scn = "calls" /\ ~Reachable(currentSession))

\* initSIP is invoked in this run
MayRegister == scn = "register"

\* remote tracks arrive in this run
MayReceive == scn = "remote"

\* the targets given to makeCall, sendMessage and transferCall
DialTargets == IF scn = "dial" THEN Targets ELSE CallTargets

\* a call may be transferred now
MayTransfer == MayControl \/ scn = "dial"

\* a message may be sent now
MayMessage == scn \in {"dial", "register"}

\* whether the session shows the page handlers its transport handle
HandleArgs == IF scn = "handle" THEN BOOLEAN ELSE {TRUE}

\* the camera may be switched now
MaySwitch == scn = "camera" \/ (scn = "calls" /\ ~Reachable(currentSession))

Next ==
    \/ \E t \in DialTargets, v \in VideoArgs : MayCall /\ MakeCall(t, v)
    \/ \E o \in MediaOutcomes : MakeCallNoMedia(o)
    \/ MakeCallInvalidTarget
    \/ MakeCallInvite
    \/ MayCall /\ OnInvite
    \/ \E v \in VideoArgs : AcceptCall("Invitation", v)
    \/ \E o \in MediaOutcomes : AcceptCallNoMedia(o)
    \/ AcceptCallAccept
    \/ AcceptCallStale
    \/ \E s \in SessionIds : LocalMedia(s)
    \/ \E s \in SessionIds, h \in HandleArgs : InviteSent(s, h)
    \/ \E s \in SessionIds : InviteFailed(s)
    \/ \E s \in SessionIds : Answered(s)
    \/ \E s \in SessionIds, h \in HandleArgs : Accepted(s, h)
    \/ \E c \in BOOLEAN : AutoEndTimer(c)
    \/ \E s \in SessionIds : AcceptFailed(s)
    \/ \E s \in SessionIds : RemoteEnd(s)
    \/ \E s \in SessionIds, o \in MediaOutcomes : RetryMedia(s, o)
    \/ \E s \in SessionIds, k \in Kinds, b \in BOOLEAN :
          MayReceive /\ TrackArrives(s, k, b)
    \/ \E s \in SessionIds : RefreshTimer(s)
    \/ \E b \in BOOLEAN : MayRegister /\ InitSIP(b)
    \/ \E a \in AttemptIds : StartResolved(a)
    \/ \E a \in AttemptIds : StartRejected(a)
    \/ \E a \in AttemptIds, st \in {"Registered", "Unregistered", "Terminated"} :
          MayRegister /\ RegistererState(a, st)
    \/ \E a \in AttemptIds : RegistrationTimeout(a)
    \/ HangupCall
    \/ \E m \in BOOLEAN : MayControl /\ MuteCall(m)
    \/ \E h \in BOOLEAN : MayControl /\ HoldCall(h)
    \/ \E e \in BOOLEAN : MayControl /\ ToggleVideo(e)
    \/ MayControl /\ SendDtmf
    \/ \E t \in DialTargets : MayTransfer /\ TransferCall(t)
    \/ \E t \in DialTargets : MayMessage /\ SendMessage(t)
    \/ MaySwitch /\ SwitchCamera
    \/ \E o \in MediaOutcomes : SwitchCameraMedia(o)
    \/ \E o \in {"ok", "OtherError"} : SwitchCameraDone(o)
    \/ MayControl /\ DebugAudioTracks

Spec == Init /\ [][Next]_vars


\* the signaling layer answers a termination request: a session that is
\* Terminating reaches Terminated
TeardownCompletes(s) ==
    /\ sess[s].state = "Terminating"
    /\ (RemoteEnd(s) \/ InviteFailed(s))

\* the program with a signaling layer that answers every termination request
FairSpec ==
    /\ Init
    /\ [][Next]_vars
    /\ \A s \in SessionIds : WF_vars(TeardownCompletes(s))

\* ================================================================ claims
Live == { s \in SessionIds : sess[s].dir # "none" /\ sess[s].state # "Terminated" }

ControlOps ==
    {"muteCall", "holdCall", "toggleVideo", "sendDtmf", "transferCall",
     "switchCamera"}

\* a control operation is invoked in this step
ControlInvoked ==
    \/ \E m \in BOOLEAN : MuteCall(m)
    \/ \E h \in BOOLEAN : HoldCall(h)
    \/ \E e \in BOOLEAN : ToggleVideo(e)
    \/ SendDtmf
    \/ \E t \in Targets : TransferCall(t)
    \/ SwitchCamera

\* session object s is created in this step
Created(s) ==
    \/ s = "Invitation" /\ OnInvite
    \/ s = "Inviter" /\ MakeCallInvite

\* C1: right after a muteCall or holdCall that reached the senders, every
\* audio sender's track.enabled equals (not muted) and (not on hold), muted
\* and on hold being the arguments of the last muteCall and holdCall on the
\* session.
C1_MuteHoldPolicy ==
    \A s \in SessionIds :
        (last.op \in {"muteCall", "holdCall"} /\ last.ret = "true" /\ last.sid = s)
        => \A i \in AudioIdx(senders[s]) :
              senders[s][i].enabled = (~sess[s].muted /\ ~sess[s].held)

\* C2: a state change or debugAudioTracks turns a disabled audio sender to
\* enabled only when the call is neither muted nor on hold.
C2_RepairRespectsPolicy ==
    [][\A s \in SessionIds :
          \A i \in AudioIdx(senders[s]) :
             ( /\ ~Created(s)
               /\ i <= Len(senders'[s])
               /\ ~senders[s][i].enabled
               /\ senders'[s][i].enabled
               /\ last'.op \in {"debugAudioTracks", "stateChange",
                                "makeCall", "acceptCall"} )
             => (~sess[s].muted /\ ~sess[s].held)]_vars

\* C3: when the current call is Established, neither muted nor on hold, and
\* no retry getUserMedia is pending, its peer connection has exactly one
\* audio sender and that sender is enabled.
C3_OneEnabledAudioSender ==
    \A s \in SessionIds :
        ( /\ currentSession = s
          /\ sess[s].state = "Established"
          /\ ~sess[s].muted /\ ~sess[s].held
          /\ retry[s] = 0 )
        => /\ Cardinality(AudioIdx(senders[s])) = 1
           /\ \A i \in AudioIdx(senders[s]) : senders[s][i].enabled

\* C4: at most one session is not Terminated (the first half of the claim;
\* the second half, that currentSession points to it, presupposes it).
C4_SingleActiveSession == Cardinality(Live) <= 1

\* C5: the state of a session object never moves backwards in the order
\* Initial, Establishing, Established, Terminating, Terminated; so a
\* Terminated session stays Terminated, whatever operation or event follows.
C5_StateOnlyAdvances ==
    [][\A s \in SessionIds :
          \/ Created(s)
          \/ sess'[s].dir = "none"
          \/ Rank(sess'[s].state) >= Rank(sess[s].state)]_vars

\* an operation ran on a session that was Terminated already
C5_Witness ==
    \E s \in SessionIds :
        /\ sess[s].state = "Terminated"
        /\ last.sid = s
        /\ \/ last.op = "hangupCall" /\ last.pre = "Terminated"
           \/ last.op = "acceptCall" /\ last.ret = "OtherError"

\* C6: after hangupCall is invoked twice in a row on a session that was not
\* Terminated, the session is terminated (or its teardown is under way),
\* exactly one termination request was sent for it, and one cleanup listener
\* is registered.
C6_HangupTwice ==
    ( /\ last.op = "hangupCall" /\ last.ret = "again"
      /\ last.sid # NoSession
      /\ last.pre # "Terminated" )
    => /\ sess[last.sid].state \in {"Terminating", "Terminated"}
       /\ Len(sess[last.sid].sent) = 1
       /\ sess[last.sid].hangupLsn <= 1

\* C7: hangupCall with no active session changes nothing: the session
\* reference, the hold flag, the sessions with their listeners and requests,
\* the senders and every pending continuation stay as they are.
C7_HangupIdleNoChange ==
    [][(HangupCall /\ currentSession = NoSession)
          => UNCHANGED <<currentSession, isOnHold, sess, senders, retry,
                         mk, ac, sw>>]_vars

\* hangupCall was invoked twice in a row with no active session
C7_Witness ==
    /\ last.op = "hangupCall" /\ last.ret = "again" /\ last.sid = NoSession
    /\ currentSession = NoSession

\* C8: hangupCall leaves currentSession null and getCallState "Idle" in
\* every dialog state, and a control operation invoked while currentSession
\* is null returns false and touches no session, sender or hold flag.
C8_HangupClearsReference ==
    [][ /\ HangupCall => (currentSession' = NoSession /\ GetCallState' = "Idle")
        /\ (currentSession = NoSession /\ ControlInvoked)
              => /\ last'.ret = "false"
                 /\ UNCHANGED <<currentSession, isOnHold, sess, senders, sw>> ]_vars

\* a control operation returned false right after a hangup whose session is
\* still being torn down
C8_Witness ==
    /\ currentSession = NoSession
    /\ last.op \in ControlOps /\ last.ret = "false" /\ last.sid = NoSession
    /\ \E s \in SessionIds :
          sess[s].hangupLsn > 0 /\ sess[s].state \in {"Establishing", "Terminating"}

\* C9: an acceptCall that has failed never leaves the invitation ringing
\* (Initial).
C9_FailedAcceptRejects ==
    (last.op = "acceptCall" /\ last.ret \notin {"ok", "pending"})
    => sess[last.sid].state # "Initial"

\* C10: a makeCall that fails with an invalid target has requested no local
\* media.
C10_InvalidTargetNoMedia ==
    (last.op = "makeCall" /\ last.ret = "InvalidTarget") => last.n = 0

\* C11: a makeCall or acceptCall that fails after getUserMedia resolved has
\* stopped the tracks of the stream it acquired by the time the error reaches
\* the caller.
C11_FailureReleasesMedia ==
    ( /\ last.op \in {"makeCall", "acceptCall"}
      /\ last.ret \notin {"ok", "pending"}
      /\ last.stream # "none" )
    => last.stream = "stopped"

\* a Terminated session has a local stream that was acquired for it and
\* is still live: the stream of makeCall / acceptCall that never was added
\* to the peer connection, or one of a retry that settled after the close
LocalTracksLive(s) ==
    /\ sess[s].dir # "none"
    /\ sess[s].state = "Terminated"
    /\ sess[s].appStream = "held" \/ sess[s].leak

\* C12: no session is Terminated with a local track acquired for it (by
\* makeCall, acceptCall or an Established-listener retry) still live.
C12_TerminatedReleasesMedia == \A s \in SessionIds : ~LocalTracksLive(s)

\* C13: no video sender ever carries an ended track, and while switchCamera
\* waits for getUserMedia or replaceTrack the sender still carries the track
\* captured at the start, live; so the old track is stopped only after
\* replaceTrack has resolved.
C13_SwitchCameraOrder ==
    /\ \A s \in SessionIds : \A i \in VideoIdx(senders[s]) :
          senders[s][i].ready = "live"
    /\ sw.pc \in {"gum", "replacing"}
          => LET snd == senders[sw.sid]
                 i == FirstVideo(snd)
             IN  snd[i].facing = sw.old /\ snd[i].ready = "live"

\* switchCamera returned true and the video sender carries the track of the
\* other camera
C13_Witness ==
    /\ last.op = "switchCamera" /\ last.ret = "true"
    /\ LET snd == senders[last.sid]
       IN  /\ snd[FirstVideo(snd)].facing = "environment"
           /\ snd[FirstVideo(snd)].ready = "live"

\* C14: while the call the page shows stays Established, no step makes the
\* remote stream of the page hold fewer tracks than before.
C14_RemoteBundleMonotone ==
    [][\A s \in SessionIds :
          ( /\ page.trackLsn[s]
            /\ sess[s].state = "Established"
            /\ sess'[s].state = "Established" )
          => Cardinality(RemoteTracks(page')) >= Cardinality(RemoteTracks(page))]_vars

\* C15: the URI a makeCall, sendMessage or transferCall sends its request
\* to is sip:<target>@<domain of the registered URI> for a target with
\* neither scheme nor '@', and the target itself for a target with both.
C15_TargetNormalized ==
    last.uri # << >> =>
        /\ (~StartsWithScheme(last.target) /\ ~Includes(last.target, "@"))
              => last.uri = <<"sip:">> \o last.target \o <<"@", "example.org">>
        /\ (StartsWithScheme(last.target) /\ Includes(last.target, "@"))
              => last.uri = last.target

\* makeCall("bob") has created its Inviter for sip:bob@example.org
C15_Witness ==
    /\ last.op = "makeCall" /\ last.target = <<"bob">>
    /\ last.uri = <<"sip:", "bob", "@", "example.org">>
    /\ sess["Inviter"].state = "Initial" /\ currentSession = "Inviter"

C17_NoAudioReported ==
    (last.op = "debugAudioTracks" /\ Reachable(last.sid))
    => /\ AudioIdx(senders[last.sid]) = {}
          => /\ last.ret = "error: No audio tracks found"
             /\ DebugAlert(last.ret) = "Audio issue detected"
       /\ last.ret = "success" => AudioIdx(senders[last.sid]) # {}

\* debugAudioTracks ran on a call whose peer connection has no sender yet
C17_Witness ==
    /\ last.op = "debugAudioTracks"
    /\ last.ret = "error: No audio tracks found"
    /\ Reachable(last.sid) /\ senders[last.sid] = << >>

\* C18: with no active session every control operation and debugAudioTracks
\* returns its failure value (false, or the report "No active call") and
\* changes nothing: not the hold flag, no session, sender, listener, timer
\* or pending continuation.
C18_IdleControlsFail ==
    [][(currentSession = NoSession /\ (ControlInvoked \/ DebugAudioTracks))
          => /\ last'.ret \in {"false", "error: No active call"}
             /\ last'.ret = "false" <=> last'.op # "debugAudioTracks"
             /\ UNCHANGED <<currentSession, isOnHold, sess, senders, retry,
                            mk, ac, sw, page, reg>>]_vars

\* holdCall was invoked with no active session
C18_Witness ==
    /\ currentSession = NoSession
    /\ last.op = "holdCall" /\ last.ret = "false" /\ last.sid = NoSession
    /\ ~isOnHold

\* C19: the promise of an initSIP invocation is pending until the first of
\* its events, and that event decides it for good: Registered resolves it,
\* Unregistered and a failed start reject it with their error, the timer
\* rejects it with the timeout error; no later event changes the outcome.
C19_FirstEventDecides ==
    \A a \in AttemptIds :
       LET at == reg.att[a]
       IN  /\ at.outcome = "pending" <=> at.first = "none"
           /\ at.outcome = "resolved" <=> at.first = "Registered"
           /\ at.outcome = "RegistrationError" <=> at.first = "Unregistered"
           /\ at.outcome = "Error" <=> at.first = "Error"
           /\ at.outcome = "Timeout" <=> at.first = "Timeout"
           /\ at.isPromiseSettled <=> at.outcome # "pending"
           /\ at.registrationTimeout => at.outcome = "pending"

\* an invocation was rejected on Unregistered and its Registerer has
\* reached Registered since
C19_Witness ==
    \E a \in AttemptIds :
       /\ reg.att[a].first = "Unregistered"
       /\ reg.att[a].outcome = "RegistrationError"
       /\ reg.att[a].state = "Registered"

\* the registration timer fired first and the Registerer has reached
\* Registered since
C19_TimeoutWitness ==
    \E a \in AttemptIds :
       /\ reg.att[a].first = "Timeout"
       /\ reg.att[a].outcome = "Timeout"
       /\ reg.att[a].state = "Registered"

\* the registration attempts whose promise is pending on a started UserAgent
PendingAttempts ==
    { a \in AttemptIds : /\ reg.att[a].pc \in {"starting", "registering"}
                         /\ ~reg.att[a].isPromiseSettled }

\* the registration timers that are running
RunningTimers == { a \in AttemptIds : reg.att[a].registrationTimeout }

\* C20: at no time are two registration timers running or two registration
\* attempts pending, each with a UserAgent of its own.
C20_OneRegistrationAttempt ==
    /\ Cardinality(RunningTimers) <= 1
    /\ Cardinality(PendingAttempts) <= 1

\* C21: a session on which hangupCall was invoked is never the current
\* session again: an acceptCall that resumes after the hangup does not put
\* the invitation back, and getCallState stays "Idle".
C21_HangupWinsOverAccept ==
    \A s \in SessionIds : sess[s].hangupLsn > 0 => currentSession # s

\* the targets that make no URI however they are completed
MalformedTargets == { t \in Targets : t = << >> \/ Includes(t, " ") }

\* C22: transferCall returns true, with refer() called on a valid URI, only
\* for an outbound session; for an inbound session or a malformed target it
\* returns false and calls no refer(); it returns true or false always and
\* changes nothing.
C22_TransferOutboundOnly ==
    [][\A t \in Targets :
          TransferCall(t)
          => /\ last'.ret \in {"true", "false"}
             /\ last'.ret = "true"
                   => /\ currentSession # NoSession
                      /\ sess[currentSession].dir = "Inviter"
                      /\ MakeURIValid(last'.uri)
             /\ ( \/ currentSession = NoSession
                  \/ sess[currentSession].dir = "Invitation"
                  \/ t \in MalformedTargets )
                   => (last'.ret = "false" /\ last'.uri = << >>)
             /\ UNCHANGED <<currentSession, isOnHold, sess, senders, retry,
                            mk, ac, sw, page, reg>>]_vars

\* transferCall was refused on an accepted inbound call
C22_Witness ==
    /\ last.op = "transferCall" /\ last.ret = "false"
    /\ currentSession = "Invitation" /\ last.sid = "Invitation"
    /\ sess["Invitation"].state = "Established"

\* transferCall called refer() on an outbound call
C22_TransferredWitness ==
    /\ last.op = "transferCall" /\ last.ret = "true"
    /\ currentSession = "Inviter" /\ sess["Inviter"].state = "Established"
    /\ MakeURIValid(last.uri)

\* the termination request for a session in a given state and direction
RequestFor(state, dir) ==
    CASE state = "Established" -> "bye"
      [] state = "Initial" /\ dir = "Inviter" -> "cancel"
      [] state = "Initial" /\ dir = "Invitation" -> "reject"
      [] OTHER -> "none"

\* C23: hangupCall on a current session that is Established, or Initial,
\* sends exactly one termination request: bye when Established, cancel when
\* Initial and outbound, reject when Initial and inbound.
C23_HangupRequestByState ==
    [][\A s \in SessionIds :
          (HangupCall /\ currentSession = s
              /\ sess[s].state \in {"Established", "Initial"})
          => sess'[s].sent =
                Append(sess[s].sent, RequestFor(sess[s].state, sess[s].dir))]_vars

\* hangupCall rejected an invitation that had not been accepted
C23_Witness ==
    /\ last.op = "hangupCall" /\ last.pre = "Initial"
    /\ last.sid = "Invitation"
    /\ sess["Invitation"].sent = <<"reject">>

\* hangupCall cancelled an outbound call whose INVITE had not gone out
C23_CancelWitness ==
    /\ last.op = "hangupCall" /\ last.pre = "Initial"
    /\ last.sid = "Inviter"
    /\ sess["Inviter"].sent = <<"cancel">>

\* hangupCall ended an Established call
C23_ByeWitness ==
    /\ last.op = "hangupCall" /\ last.pre = "Established"
    /\ last.sid # NoSession
    /\ sess[last.sid].sent = <<"bye">>

\* C25: when the current session is ended from the other side or by the
\* transport, the reference to it is cleared with that very step:
\* getCallState returns "Idle" from then on.
C25_RemoteEndClearsReference ==
    [][\A s \in SessionIds :
          (RemoteEnd(s) /\ currentSession = s) => GetCallState' = "Idle"]_vars

\* hangupCall was just invoked on session s, which was not Terminated
HungUp(s) ==
    /\ last.op = "hangupCall" /\ last.sid = s
    /\ last.pre \in {"Initial", "Establishing", "Established"}

\* C24: with a signaling layer that answers every termination request, a
\* session on which hangupCall was invoked in Initial, Establishing or
\* Established is Terminated in the end.
C24_HangupTerminates ==
    \A s \in SessionIds : HungUp(s) ~> (sess[s].state = "Terminated")

\* C26: no hangupCall listener is attached to a session that is Terminated.
C26_HangupListenerRemoved ==
    \A s \in SessionIds : sess[s].state = "Terminated" => sess[s].hangupLsn = 0

\* C27: a session of either direction enters Establishing with the
\* Establishing listener of makeCall / acceptCall registered on it, so that
\* the listener sees the transition and binds the acquired tracks then.
C27_EstablishingObserved ==
    [][\A s \in SessionIds :
          (sess[s].state # "Establishing" /\ sess'[s].state = "Establishing")
          => sess'[s].lsnEstablishing]_vars

\* C28: a makeCall that was waiting for getUserMedia when hangupCall was
\* invoked creates no session and sends no INVITE, and the retry
\* getUserMedia of an Established listener adds no track to a session that
\* is being torn down, is Terminated or is not the current one.
C28_HungUpAcquisitionDiscarded ==
    [][/\ (mk.pc = "gum" /\ last.op = "hangupCall") => ~MakeCallInvite
       /\ \A s \in SessionIds, o \in MediaOutcomes :
             ( /\ RetryMedia(s, o)
               /\ \/ sess[s].state \in {"Terminating", "Terminated"}
                  \/ currentSession # s )
             => senders'[s] = senders[s]]_vars

\* C29: a switchCamera whose session was hung up while it waited returns
\* false, replaces no track on that session and leaves no acquired video
\* track live.
C29_SwitchCameraToleratesHangup ==
    [][\A o \in {"ok", "OtherError"} :
          (SwitchCameraDone(o) /\ currentSession # sw.sid)
          => /\ last'.ret = "false"
             /\ senders'[sw.sid] = senders[sw.sid]
             /\ sess'[sw.sid].leak = sess[sw.sid].leak]_vars

\* C30: a switchCamera that returns false on a call that is still up has
\* left the senders as they were, the captured video track attached and
\* live, and no acquired track live.
C30_FailedSwitchLeavesNothing ==
    [][/\ \A o \in MediaOutcomes :
             (SwitchCameraMedia(o) /\ last'.ret = "false")
             => UNCHANGED <<senders, sess>>
       /\ \A o \in {"ok", "OtherError"} :
             (SwitchCameraDone(o) /\ last'.ret = "false"
                 /\ sess[sw.sid].sdh = "pc")
             => /\ senders'[sw.sid] = senders[sw.sid]
                /\ senders[sw.sid][FirstVideo(senders[sw.sid])].ready = "live"
                /\ sess'[sw.sid].leak = sess[sw.sid].leak]_vars

C31_OutboundWitness ==
    /\ last.op = "track"
    /\ sess["Inviter"].state = "Established"
    /\ page.remoteStream.obj = "copy" /\ page.remoteStream.sid = "Inviter"
    /\ RemoteTracks(page) = sess["Inviter"].recv

\* C32: whenever a 30 s timer started by a call handler that found no
\* transport handle fires, the page is not in a call afterwards and shows no
\* remote stream.
C32_AutoEndResets ==
    [][\A c \in BOOLEAN :
          AutoEndTimer(c)
          => (~page'.inCall /\ page'.remoteStream = NoStream)]_vars


\* the enabled flags of the video senders of every session are what they were
VideoFlagsKept ==
    \A s \in SessionIds :
        \A i \in VideoIdx(senders[s]) :
            /\ i <= Len(senders'[s])
            /\ senders'[s][i].kind = "video"
            /\ senders'[s][i].enabled = senders[s][i].enabled

\* C33: debugAudioTracks, the Establishing and Established handlers of the
\* client and the handlers of the page that read the local tracks leave the
\* enabled flag of every video sender as it was.
C33_VideoFlagUserOnly ==
    [][( \/ DebugAudioTracks
         \/ \E s \in SessionIds, h \in BOOLEAN : InviteSent(s, h)
         \/ \E s \in SessionIds : Answered(s)
         \/ \E s \in SessionIds, h \in BOOLEAN : Accepted(s, h) )
       => VideoFlagsKept]_vars


\* C34: muteCall(m) on a current session with a reachable peer connection
\* sets enabled = ~m on every audio sender, keeps the senders' number, kinds
\* and tracks, every video sender's flag, the hold flag and every other
\* session, and returns true; without a session or a reachable peer
\* connection it returns false and changes nothing.
C34_MuteAudioOnly ==
    [][\A m \in BOOLEAN :
          MuteCall(m)
          => IF Reachable(currentSession)
             THEN /\ last'.ret = "true"
                  /\ Len(senders'[currentSession]) = Len(senders[currentSession])
                  /\ \A i \in AudioIdx(senders[currentSession]) :
                        senders'[currentSession][i] =
                           [senders[currentSession][i] EXCEPT !.enabled = ~m]
                  /\ \A i \in VideoIdx(senders[currentSession]) :
                        senders'[currentSession][i] = senders[currentSession][i]
                  /\ \A s \in SessionIds \ {currentSession} :
                        senders'[s] = senders[s]
                  /\ UNCHANGED <<isOnHold, currentSession>>
             ELSE /\ last'.ret = "false"
                  /\ UNCHANGED <<senders, isOnHold, currentSession, sess>>]_vars

\* muteCall(true) returned true on a video call: the audio sender is
\* disabled and the video sender is still enabled
C34_Witness ==
    /\ last.op = "muteCall" /\ last.ret = "true"
    /\ Reachable(currentSession)
    /\ VideoIdx(senders[currentSession]) # {}
    /\ \A i \in VideoIdx(senders[currentSession]) : senders[currentSession][i].enabled
    /\ AudioIdx(senders[currentSession]) # {}
    /\ \A i \in AudioIdx(senders[currentSession]) : ~senders[currentSession][i].enabled
    /\ ~isOnHold

\* muteCall returned false on a session whose peer connection is closed
C34_UnreachableWitness ==
    /\ last.op = "muteCall" /\ last.ret = "false"
    /\ currentSession # NoSession /\ sess[currentSession].sdh = "nopc"

\* the outcomes that reject the promise of initSIP
Rejections == {"RegistrationError", "Timeout", "Error"}

\* C35: once the promise of an initSIP invocation has settled, no event
\* changes its outcome or invokes onRegistrationFailed; onRegistrationFailed
\* is invoked at most once, in the step that rejects the promise and in no
\* other; the registration timer is not running once the promise has settled.
C35_SettlesOnce ==
    [][\A a \in AttemptIds :
          LET at == reg.att[a]
              nx == reg'.att[a]
          IN  /\ at.isPromiseSettled
                    => /\ nx.isPromiseSettled
                       /\ nx.outcome = at.outcome
                       /\ nx.failed = at.failed
              /\ nx.failed <= 1
              /\ nx.failed = 1 <=> nx.outcome \in Rejections
              /\ nx.failed # at.failed
                    => (at.outcome = "pending" /\ nx.outcome \in Rejections)
              /\ nx.outcome # "pending"
                    => (nx.isPromiseSettled /\ ~nx.registrationTimeout)]_vars

\* a promise was rejected on Unregistered while its timer was running; the
\* timer is cleared, onRegistrationFailed ran once, and a later Registered
\* has changed nothing
C35_Witness ==
    \E a \in AttemptIds :
       /\ reg.att[a].pc = "registering"
       /\ reg.att[a].outcome = "RegistrationError"
       /\ reg.att[a].failed = 1
       /\ ~reg.att[a].registrationTimeout
       /\ reg.att[a].state = "Registered"

\* a promise was resolved and its Registerer has left Registered since:
\* onRegistrationFailed was not invoked
C35_ResolvedWitness ==
    \E a \in AttemptIds :
       /\ reg.att[a].outcome = "resolved"
       /\ reg.att[a].state = "Unregistered"
       /\ reg.att[a].failed = 0
       /\ last.op = "event"

\* C36: a holdCall that returns false leaves the hold flag as it was.
C36_FailedHoldKeepsFlag ==
    [][\A h \in BOOLEAN :
          (HoldCall(h) /\ last'.ret = "false") => isOnHold' = isOnHold]_vars


\* C37: isCallOnHold() is false whenever there is no current session, and
\* when makeCall or acceptCall is invoked.
C37_HoldEndsWithCall ==
    [][/\ currentSession' = NoSession => ~isOnHold'
       /\ ( \/ \E t \in Targets, v \in BOOLEAN : MakeCall(t, v)
            \/ \E s \in SessionIds, v \in BOOLEAN : AcceptCall(s, v) )
          => ~IsCallOnHold]_vars


\* C38: when makeCall or acceptCall has failed on a session, the current
\* session is not that session: there is none (getCallState is "Idle") or it
\* is another session that is not Terminated.
C38_FailedCallNotCurrent ==
    ( /\ last.op \in {"makeCall", "acceptCall"}
      /\ last.ret \notin {"ok", "pending"}
      /\ last.sid # NoSession )
    => \/ GetCallState = "Idle"
       \/ /\ currentSession # last.sid
          /\ sess[currentSession].state # "Terminated"


\* C39: while the hold flag is set on the current session, a toggleVideo or
\* muteCall leaves every sender of that session disabled.
C39_HoldOutlastsToggles ==
    [][\A s \in SessionIds :
          ( /\ currentSession = s
            /\ isOnHold /\ sess[s].held
            /\ \A i \in 1..Len(senders[s]) : ~senders[s][i].enabled
            /\ \/ \E e \in BOOLEAN : ToggleVideo(e)
               \/ \E m \in BOOLEAN : MuteCall(m) )
          => \A i \in 1..Len(senders'[s]) : ~senders'[s][i].enabled]_vars


\* C40: the delivery of an invitation while the current session is not
\* Terminated leaves that session the one hangupCall and the control
\* operations act on.
C40_InviteKeepsActiveCall ==
    [][( /\ OnInvite
         /\ currentSession # NoSession
         /\ sess[currentSession].state # "Terminated" )
       => currentSession' = currentSession]_vars


====
